---- MODULE Spec2Model ----
(***************************************************************************)
(* BrownianRobot (src/brownian_motion.py): a point agent that walks in the *)
(* square arena [0, arena_size]^2, redraws its heading when a step's       *)
(* candidate position reaches a wall, and records its trajectory.          *)
(*                                                                         *)
(* Reals are exact fixed-point integers, each quantity in its own unit so  *)
(* that no product is ever rounded:                                        *)
(*   speed, speed_history entries : 1/1000                                 *)
(*   speed multiplier             : 1/10                                   *)
(*   dt                           : 1/10                                   *)
(*   cos, sin                     : 1/5    (axis and 3-4-5 headings)       *)
(*   x, y, arena_size             : 1/50000  (= speed * cos * dt)          *)
(***************************************************************************)
EXTENDS Integers, Sequences, FiniteSets, TLC

\* Number of move() calls explored.
MaxSteps == 3

\* 0.05, the floor of the realized speed (speed unit 1/1000).
MIN_SPEED == 50

\* Default constructor arguments: arena_size = 10.0, speed = 0.1, dt = 0.1.
DEFAULT_ARENA_SIZE == 500000
DEFAULT_SPEED == 100
DEFAULT_DT == 1

Min(a, b) == IF a < b THEN a ELSE b
Max(a, b) == IF a > b THEN a ELSE b
Last(s) == s[Len(s)]

\* Headings random.uniform(0, 2*pi) may return, as <<5*cos, 5*sin>>.
HeadingTable ==
    << <<5, 0>>, <<3, 4>>, <<-4, -3>>, <<0, -5>> >>
Angles == 1..Len(HeadingTable)
Cos5(a) == HeadingTable[a][1]
Sin5(a) == HeadingTable[a][2]

\* Values np.random.normal(1, 0.1) may return, in tenths.
Mults == {9, 10, 25}
Normal(mult, base) == (mult * base) \div 10

\* Constructor arguments with arena_size > 0, speed > 0, dt > 0.
\* All arena sizes are even and all speeds multiples of 10, so that
\* arena_size / 2 and multiplier * speed are exact.
ValidArgs ==
    { [arena_size |-> 1000, speed |-> 100, dt |-> 1],
      [arena_size |-> 1000, speed |-> 50, dt |-> 2],
      [arena_size |-> 1000, speed |-> 20, dt |-> 2],
      [arena_size |-> DEFAULT_ARENA_SIZE, speed |-> DEFAULT_SPEED,
       dt |-> DEFAULT_DT] }

\* Constructor arguments with a non-positive arena_size, speed or dt.
InvalidArgs ==
    { [arena_size |-> 0, speed |-> 100, dt |-> 1],
      [arena_size |-> -1000, speed |-> 100, dt |-> 1],
      [arena_size |-> 1000, speed |-> 0, dt |-> 1],
      [arena_size |-> 1000, speed |-> -100, dt |-> 1],
      [arena_size |-> 1000, speed |-> 100, dt |-> 0],
      [arena_size |-> 1000, speed |-> 100, dt |-> -1] }

AnyArgs == ValidArgs \cup InvalidArgs

VARIABLES
    arena_size, speed, dt,      \* self.arena_size, self.speed, self.dt
    x, y, angle,                \* self.x, self.y, self.angle
    x_history, y_history,       \* self.x_history, self.y_history
    speed_history,              \* self.speed_history
    trace,                      \* locals of every move() call so far
    ret                         \* the last call and what it returned

vars == <<arena_size, speed, dt, x, y, angle, x_history, y_history,
          speed_history, trace, ret>>

params == <<arena_size, speed, dt>>
histories == <<x_history, y_history, speed_history>>

----------------------------------------------------------------------------
\* A constructor that starts the robot at the origin instead of the centre.
ConstructAtOrigin(args, a0) ==
    /\ arena_size = args.arena_size
    /\ speed = args.speed
    /\ dt = args.dt
    /\ x = 0
    /\ y = 0
    /\ angle = a0
    /\ x_history = <<0>>
    /\ y_history = <<0>>
    /\ speed_history = <<args.speed>>
    /\ trace = <<>>
    /\ ret = [op |-> "__init__"]

\* BrownianRobot.__init__
Construct(args, a0) ==
    /\ arena_size = args.arena_size
    /\ speed = args.speed
    /\ dt = args.dt
    /\ x = args.arena_size \div 2
    /\ y = args.arena_size \div 2
    /\ angle = a0
    /\ x_history = <<args.arena_size \div 2>>
    /\ y_history = <<args.arena_size \div 2>>
    /\ speed_history = <<args.speed>>
    /\ trace = <<>>
    /\ ret = [op |-> "__init__"]

Init == \E args \in ValidArgs, a0 \in Angles : Construct(args, a0)

InitAnyArgs == \E args \in AnyArgs, a0 \in Angles : Construct(args, a0)

----------------------------------------------------------------------------
\* max(0.05, min(self.speed * 2, speed_variation))
ClampSpeedNoCeiling(speed_variation, base) == Max(MIN_SPEED, speed_variation)
ClampSpeed(speed_variation, base) ==
    Max(MIN_SPEED, Min(base * 2, speed_variation))

\* new_x <= 0 or new_x >= self.arena_size
CollidesStrict(v, size) == v < 0 \/ v > size
Collides(v, size) == v <= 0 \/ v >= size

\* np.clip(v, lo, hi) = minimum(maximum(v, lo), hi)
ClipNone(v, lo, hi) == v
ClipUpperOnly(v, lo, hi) == Min(v, hi)
Clip(v, lo, hi) == Min(Max(v, lo), hi)

\* The two "self.angle = random.uniform(0, 2 * np.pi)" statements: a1 is
\* the value drawn in the x test, a2 the value drawn in the y test.
NewAngleAlways(old, xhit, yhit, a1, a2) == a2
NewAngle(old, xhit, yhit, a1, a2) ==
    IF yhit THEN a2 ELSE IF xhit THEN a1 ELSE old

\* Number of random.uniform calls one move() makes.
HeadingDraws(xhit, yhit) ==
    (IF xhit THEN 1 ELSE 0) + (IF yhit THEN 1 ELSE 0)

\* list.append
Prepend(h, v) == <<v>> \o h
ListAppend(h, v) == Append(h, v)

\* self.speed_history.append(current_speed)
SkipAppend(h, v) == h
SpeedAppend(h, v) == ListAppend(h, v)

\* BrownianRobot.move
move ==
    /\ Len(trace) < MaxSteps
    /\ \E mult \in Mults, a1 \in Angles, a2 \in Angles :
         LET speed_variation == Normal(mult, speed)
             current_speed == ClampSpeed(speed_variation, speed)
             dx == current_speed * Cos5(angle) * dt
             dy == current_speed * Sin5(angle) * dt
             new_x == x + dx
             new_y == y + dy
             xhit == Collides(new_x, arena_size)
             yhit == Collides(new_y, arena_size)
             collision == xhit \/ yhit
             x1 == IF collision THEN Clip(new_x, 0, arena_size) ELSE new_x
             y1 == IF collision THEN Clip(new_y, 0, arena_size) ELSE new_y
         IN  /\ angle' = NewAngle(angle, xhit, yhit, a1, a2)
             /\ x' = x1
             /\ y' = y1
             /\ x_history' = ListAppend(x_history, x1)
             /\ y_history' = ListAppend(y_history, y1)
             /\ speed_history' = SpeedAppend(speed_history, current_speed)
             /\ trace' = Append(trace,
                    [new_x |-> new_x, new_y |-> new_y,
                     collision |-> collision,
                     draws |-> HeadingDraws(xhit, yhit)])
    /\ ret' = [op |-> "move"]
    /\ UNCHANGED params

\* BrownianRobot.get_position
get_position ==
    /\ ret' = [op |-> "get_position", x |-> x, y |-> y]
    /\ UNCHANGED <<params, x, y, angle, histories, trace>>

----------------------------------------------------------------------------
RECURSIVE SqrtSearch(_, _, _)
SqrtSearch(n, lo, hi) ==
    IF lo >= hi THEN lo
    ELSE LET mid == (lo + hi + 1) \div 2
         IN  IF mid * mid <= n THEN SqrtSearch(n, mid, hi)
             ELSE SqrtSearch(n, lo, mid - 1)

\* np.sqrt, truncated to the position unit (46340 = isqrt(2^31 - 1) keeps
\* mid * mid inside TLC's integers).
Sqrt(n) == SqrtSearch(n, 0, Min(n, 46340))

RECURSIVE SumSeq(_)
SumSeq(s) == IF s = <<>> THEN 0 ELSE s[1] + SumSeq(Tail(s))

\* 'total_distance' of get_stats
TotalDistance(xh, yh) ==
    SumSeq([i \in 1..(Len(xh) - 1) |->
              Sqrt((xh[i + 1] - xh[i]) * (xh[i + 1] - xh[i])
                   + (yh[i + 1] - yh[i]) * (yh[i + 1] - yh[i]))])

\* np.mean(self.speed_history), as the exact fraction sum / count.
Mean(sh) == [sum |-> SumSeq(sh), count |-> Len(sh)]

\* 'collisions' of get_stats
Collisions(xh, yh, size) ==
    Cardinality({i \in 1..Len(xh) :
        xh[i] <= 0 \/ xh[i] >= size \/ yh[i] <= 0 \/ yh[i] >= size})

\* BrownianRobot.get_stats
get_stats ==
    /\ ret' = [op |-> "get_stats",
               total_distance |-> TotalDistance(x_history, y_history),
               avg_speed |-> Mean(speed_history),
               collisions |-> Collisions(x_history, y_history, arena_size)]
    /\ UNCHANGED <<params, x, y, angle, histories, trace>>

----------------------------------------------------------------------------
Next == move \/ get_position \/ get_stats

Spec == Init /\ [][Next]_vars

SpecAnyArgs == InitAnyArgs /\ [][Next]_vars

----------------------------------------------------------------------------
\* The constructor's arguments are all positive.
ValidConstruction == arena_size > 0 /\ speed > 0 /\ dt > 0

\* The step just taken is a move() call.
MoveStep == ret'.op = "move" /\ Len(trace') = Len(trace) + 1

\* The candidate position of the move() call just taken, recomputed from the
\* state before the call and the realized speed the call recorded.
CandX == x + Last(speed_history') * Cos5(angle) * dt
CandY == y + Last(speed_history') * Sin5(angle) * dt

\* History index i holds a position on the boundary of the arena.
Touches(i) ==
    \/ x_history[i] = 0 \/ x_history[i] = arena_size
    \/ y_history[i] = 0 \/ y_history[i] = arena_size

\* C1: with arena_size > 0, speed > 0 and dt > 0, after any number of
\* move() calls every entry of x_history and of y_history lies in
\* [0, arena_size] inclusive.
BoundaryContainment ==
    ValidConstruction =>
        \A i \in 1..Len(x_history) :
            /\ 0 <= x_history[i] /\ x_history[i] <= arena_size
            /\ 0 <= y_history[i] /\ y_history[i] <= arena_size

\* A move() whose candidate overshot a wall was recorded at the wall.
BoundaryContainmentWitness ==
    \E i \in 1..Len(trace) :
        /\ \/ trace[i].new_x > arena_size \/ trace[i].new_x < 0
           \/ trace[i].new_y > arena_size \/ trace[i].new_y < 0
        /\ Touches(i + 1)

\* C2 as stated: for every base speed > 0, every entry of speed_history
\* (the seeded one included) lies in [0.05, 2 x base_speed].
SpeedBound ==
    speed > 0 =>
        \A i \in 1..Len(speed_history) :
            MIN_SPEED <= speed_history[i] /\ speed_history[i] <= 2 * speed

\* C2 amended: for every base speed >= 0.05, every entry of speed_history
\* (the seeded one included) lies in [0.05, 2 x base_speed].
SpeedBoundFromMinSpeed ==
    speed >= MIN_SPEED =>
        \A i \in 1..Len(speed_history) :
            MIN_SPEED <= speed_history[i] /\ speed_history[i] <= 2 * speed

\* A move() recorded a realized speed cut down to the ceiling 2 x base_speed.
SpeedBoundWitness ==
    /\ speed >= MIN_SPEED
    /\ \E i \in 2..Len(speed_history) : speed_history[i] = 2 * speed

\* C3: after exactly k calls to move(), x_history, y_history and
\* speed_history each have length k + 1.
HistoryAlignment ==
    /\ Len(x_history) = Len(trace) + 1
    /\ Len(y_history) = Len(trace) + 1
    /\ Len(speed_history) = Len(trace) + 1

\* Two move() calls have been made.
HistoryAlignmentWitness == Len(trace) = 2 /\ Len(speed_history) = 3

\* C4: a move() whose candidate position is strictly inside the arena on
\* both axes leaves the heading unchanged and commits the candidate.
HeadingChangesOnlyOnCollision ==
    [][(MoveStep /\ 0 < CandX /\ CandX < arena_size
                 /\ 0 < CandY /\ CandY < arena_size)
          => (angle' = angle /\ x' = CandX /\ y' = CandY)]_vars

\* The last call was a move() that did not collide.
HeadingChangesOnlyOnCollisionWitness ==
    /\ ret.op = "move"
    /\ ~Last(trace).collision
    /\ x = Last(trace).new_x /\ y = Last(trace).new_y
    /\ 0 < x /\ x < arena_size /\ 0 < y /\ y < arena_size

\* C5: a move() whose candidate x or y is <= 0 or >= arena_size (a candidate
\* exactly on the boundary included) commits, on each colliding axis, the
\* nearer bound (0 or arena_size), draws a new heading, and raises the
\* 'collisions' value of get_stats() by at least 1.
ClampOnCollision ==
    [][(MoveStep /\ ValidConstruction) =>
          LET xhit == CandX <= 0 \/ CandX >= arena_size
              yhit == CandY <= 0 \/ CandY >= arena_size
          IN  (xhit \/ yhit) =>
                /\ xhit => x' = (IF CandX <= 0 THEN 0 ELSE arena_size)
                /\ yhit => y' = (IF CandY <= 0 THEN 0 ELSE arena_size)
                /\ Last(trace').draws >= 1
                /\ Collisions(x_history', y_history', arena_size)
                     >= Collisions(x_history, y_history, arena_size) + 1]_vars

\* get_stats() was called after a move() whose candidate landed exactly on
\* the wall x = arena_size.
ClampOnCollisionWitness ==
    /\ ret.op = "get_stats" /\ ret.collisions >= 1
    /\ Len(trace) >= 1
    /\ Last(trace).new_x = arena_size /\ x = arena_size

\* C6: a robot constructed with a non-positive arena_size, speed or dt is
\* never advanced by move().
FailFastConstruction == Len(trace) >= 1 => ValidConstruction

\* C7: get_stats()['collisions'] is the number of history indices whose
\* x or y equals exactly 0 or exactly arena_size.
CollisionStatDefinition ==
    (ret.op = "get_stats" /\ ValidConstruction) =>
        ret.collisions = Cardinality({i \in 1..Len(x_history) : Touches(i)})

\* get_stats() was called with two positions on the boundary.
CollisionStatDefinitionWitness ==
    /\ ret.op = "get_stats" /\ ret.collisions = 2
    /\ Len(x_history) = 3

\* C8: move() keeps every recorded entry of the three histories and adds
\* exactly one at the end of each; get_stats() and get_position() change
\* no entry.
AppendOnlyHistory ==
    [][/\ ret'.op = "move" =>
            /\ Len(x_history') = Len(x_history) + 1
            /\ Len(y_history') = Len(y_history) + 1
            /\ Len(speed_history') = Len(speed_history) + 1
            /\ SubSeq(x_history', 1, Len(x_history)) = x_history
            /\ SubSeq(y_history', 1, Len(y_history)) = y_history
            /\ SubSeq(speed_history', 1, Len(speed_history)) = speed_history
       /\ ret'.op \in {"get_stats", "get_position"} =>
            UNCHANGED histories]_vars

\* An accessor was called after two moves to different positions.
AppendOnlyHistoryWitness ==
    /\ ret.op \in {"get_stats", "get_position"}
    /\ Len(x_history) = 3
    /\ x_history[1] # x_history[2] /\ x_history[2] # x_history[3]

\* C9: every move() draws one heading if it collides and none otherwise
\* (one draw even when both axes collide).
SingleHeadingDraw ==
    \A i \in 1..Len(trace) :
        trace[i].draws = (IF trace[i].collision THEN 1 ELSE 0)

\* C10: with arena_size > 0, the i-th recorded position touches the boundary
\* iff the i-th move() detected a collision, and get_stats()['collisions']
\* is the number of move() calls that detected one.
BoundaryChecksAgree ==
    ValidConstruction =>
        /\ \A i \in 1..Len(trace) : Touches(i + 1) <=> trace[i].collision
        /\ ret.op = "get_stats" =>
             ret.collisions =
                Cardinality({i \in 1..Len(trace) : trace[i].collision})

\* get_stats() was called after a colliding and a non-colliding move().
BoundaryChecksAgreeWitness ==
    /\ ret.op = "get_stats" /\ ret.collisions >= 1
    /\ \E i \in 1..Len(trace) : trace[i].collision
    /\ \E i \in 1..Len(trace) : ~trace[i].collision

====
